---- MODULE Spec2Model ----
(***************************************************************************)
(* Model of the LRU cache of src/lru/mod.rs: a HashMap from keys to        *)
(* (value, instant) entries and a BTreeMap from clock instants to keys,    *)
(* driven by a logical clock.  Every public operation (new, get, insert)   *)
(* is one atomic action; a failed unwrap() is a panic that ends the run.   *)
(***************************************************************************)
EXTENDS Integers, FiniteSets, Sequences, TLC

\* ---- bounds of the model ------------------------------------------------
MaxKey == 3
MaxVal == 2
MaxCapacity == 2
MaxClock == 5
\* width of the clock in the specification that lets it overflow (u64 scaled)
ClockBits == 3

Keys == 1..MaxKey
Vals == 1..MaxVal
Capacities == 0..MaxCapacity
\* the clock is an unsigned integer of ClockBits bits
ClockModulus == 2 ^ ClockBits
ClockMax == ClockModulus - 1
\* calls that touch an entry, in the specification that lets the clock overflow
MaxTouches == ClockModulus + 2

\* Option::None of get's Option<&V>; values are 1..MaxVal
None == 0
\* markers of the observer `written`
NeverInserted == 0
Evicted == -1

VARIABLES
    capacity,   \* LRUCache.capacity
    clock,      \* LRUCache.clock
    data,       \* LRUCache.data : key -> [val, instant]
    order,      \* LRUCache.order : instant -> key
    panicked,   \* TRUE once an unwrap() on None has aborted an operation
    last,       \* the operation that ran last, its arguments and its result
    written,    \* per key: value of its latest insert, Evicted, NeverInserted
    outlives,   \* pairs <<k, j>>: get hit k while j was live, j untouched since
    touches,    \* number of insert calls plus number of get calls that hit
    ref         \* the list-based reference cache run side by side, and its result

vars == <<capacity, clock, data, order, panicked, last, written, outlives, touches, ref>>

\* ---- HashMap / BTreeMap primitives ---------------------------------------
map_insert(m, k, v) == [x \in (DOMAIN m) \cup {k} |-> IF x = k THEN v ELSE m[x]]

map_remove(m, k) == [x \in (DOMAIN m) \ {k} |-> m[x]]

EmptyMap == [x \in {} |-> 0]

\* mutant: the largest instant is taken for the oldest
first_key_largest(ord) == CHOOSE t \in DOMAIN ord : \A u \in DOMAIN ord : t >= u

\* order.keys().cloned().next(): the smallest instant of the BTreeMap
first_key(ord) == CHOOSE t \in DOMAIN ord : \A u \in DOMAIN ord : t <= u

\* mutant: the clock advances by two
Tick_twice(c) == (c + 2) % ClockModulus

\* self.clock += 1 without overflow checks: the sum wraps at the width
Tick(c) == (c + 1) % ClockModulus

\* mutant: the two fields are filled the wrong way round
CacheEntry_swapped(v, t) == [val |-> t, instant |-> v]

CacheEntry(v, t) == [val |-> v, instant |-> t]

\* the struct as one value
LRUCache == [capacity |-> capacity, clock |-> clock, data |-> data, order |-> order]

new(cap) == [capacity |-> cap, clock |-> 0, data |-> EmptyMap, order |-> EmptyMap]

len(c) == Cardinality(DOMAIN c.data)

\* the debug_assert of len()
len_assert(c) == Cardinality(DOMAIN c.data) = Cardinality(DOMAIN c.order)

\* the two maps after one sub-mutation of a call
Step(d, ord) == [data |-> d, order |-> ord]

\* ---- get -----------------------------------------------------------------
\* mutant: the entry's instant is not refreshed
get_entry_untouched(e, now) == e

\* mutant: the instant is one tick behind now
get_entry_prevtick(e, now) == [e EXCEPT !.instant = now - 1]

\* mutant: now is written to the value as well
get_entry_val(e, now) == [e EXCEPT !.instant = now, !.val = now]

\* Entry::Occupied arm: the entry's instant becomes now
get_entry(e, now) == [e EXCEPT !.instant = now]

\* mutant: the ordering is left as it was
get_order_untouched(ord, t, now) == ord

\* mutant: the old association is not removed
get_order_noremove(ord, t, now) == map_insert(ord, now, ord[t])

\* order.remove(&t) then order.insert(now, k.unwrap()), for t in the map
get_order(ord, t, now) == map_insert(map_remove(ord, t), now, ord[t])

\* mutant: the clock advances on a miss as well
get_miss_tick(c) == [c EXCEPT !.clock = Tick(c.clock)]

\* the `_ => None` arm: nothing is written
get_miss(c) == c

get(c, key) ==
    LET now == c.clock IN
    IF key \in DOMAIN c.data
    THEN LET prev == c.data[key].instant
             c1 == [c EXCEPT !.clock = Tick(c.clock),
                             !.data[key] = get_entry(c.data[key], now)]
         IN  IF prev \in DOMAIN c1.order
             THEN [cache |-> [c1 EXCEPT !.order = get_order(c1.order, prev, now)],
                   ret |-> c1.data[key].val, panic |-> FALSE,
                   steps |-> <<Step(c1.data, c1.order),
                               Step(c1.data, map_remove(c1.order, prev)),
                               Step(c1.data, get_order(c1.order, prev, now))>>]
             ELSE [cache |-> [c1 EXCEPT !.order = map_remove(c1.order, prev)],
                   ret |-> None, panic |-> TRUE,
                   steps |-> <<Step(c1.data, c1.order)>>]
    ELSE [cache |-> get_miss(c), ret |-> None, panic |-> FALSE, steps |-> <<>>]

\* ---- insert --------------------------------------------------------------
\* mutant: the value is not replaced
occupied_entry_keepval(e, now, val) == [e EXCEPT !.instant = now]

\* Entry::Occupied arm, the entry: e.instant = now; e.val = val
occupied_entry(e, now, val) == [e EXCEPT !.instant = now, !.val = val]

\* mutant: the old association is not removed
occupied_order_noremove(ord, prev, now, key) == map_insert(ord, now, key)

\* Entry::Occupied arm, the ordering: remove(&prev); insert(now, key)
occupied_order(ord, prev, now, key) == map_insert(map_remove(ord, prev), now, key)

\* mutant: eviction only once the capacity is exceeded
needs_evict_late(size, cap) == size > cap

\* mutant: eviction one entry early
needs_evict_early(size, cap) == size + 1 >= cap

\* mutant: a zero capacity never evicts
needs_evict_guarded(size, cap) == size = cap /\ cap > 0

\* if size == self.capacity
needs_evict(size, cap) == size = cap

\* mutant: the new entry is added first, the oldest is looked up after it
vacant_evict_insert_first(c, now, key, val) ==
    LET data1 == map_insert(c.data, key, CacheEntry(val, now))
        ord1 == map_insert(c.order, now, key)
        oldest == first_key(ord1)
        k == ord1[oldest]
        ord2 == map_remove(ord1, oldest)
        data2 == map_remove(data1, k)
    IN  [cache |-> [c EXCEPT !.data = data2, !.order = ord2],
         ret |-> None, panic |-> FALSE,
         steps |-> <<Step(data1, c.order), Step(data1, ord1),
                     Step(data1, ord2), Step(data2, ord2)>>]

\* mutant: the new entry is not stored in the table when an entry is evicted
vacant_evict_drop(c, now, key, val) ==
    LET oldest == first_key(c.order)
        k == c.order[oldest]
        ord1 == map_remove(c.order, oldest)
        ord2 == map_insert(ord1, now, key)
        data2 == map_remove(c.data, k)
    IN  [cache |-> [c EXCEPT !.data = data2, !.order = ord2],
         ret |-> None, panic |-> FALSE,
         steps |-> <<Step(c.data, ord1), Step(c.data, ord2), Step(data2, ord2)>>]

\* Entry::Vacant arm at size == capacity, the ordering not empty: the oldest
\* instant leaves the ordering, the new entry enters the table and the
\* ordering, the evicted key leaves the table at the end of the function
vacant_evict(c, now, key, val) ==
    LET oldest == first_key(c.order)
        k == c.order[oldest]
        ord1 == map_remove(c.order, oldest)
        data1 == map_insert(c.data, key, CacheEntry(val, now))
        ord2 == map_insert(ord1, now, key)
        data2 == map_remove(data1, k)
    IN  [cache |-> [c EXCEPT !.data = data2, !.order = ord2],
         ret |-> None, panic |-> FALSE,
         steps |-> <<Step(c.data, ord1), Step(data1, ord1),
                     Step(data1, ord2), Step(data2, ord2)>>]

insert_vacant(c, now, size, key, val) ==
    IF needs_evict(size, c.capacity)
    THEN IF DOMAIN c.order = {}
         THEN [cache |-> c, ret |-> None, panic |-> TRUE, steps |-> <<>>]
         ELSE vacant_evict(c, now, key, val)
    ELSE LET data1 == map_insert(c.data, key, CacheEntry(val, now))
             ord1 == map_insert(c.order, now, key)
         IN  [cache |-> [c EXCEPT !.data = data1, !.order = ord1],
              ret |-> None, panic |-> FALSE,
              steps |-> <<Step(data1, c.order), Step(data1, ord1)>>]

insert(c, key, val) ==
    LET now == c.clock
        c1 == [c EXCEPT !.clock = Tick(c.clock)]
        size == Cardinality(DOMAIN c.data)
    IN  IF key \in DOMAIN c.data
        THEN LET prev == c.data[key].instant
                 data1 == [c.data EXCEPT ![key] = occupied_entry(c.data[key], now, val)]
                 ord2 == occupied_order(c.order, prev, now, key)
             IN  [cache |-> [c1 EXCEPT !.data = data1, !.order = ord2],
                  ret |-> None, panic |-> FALSE,
                  steps |-> <<Step(data1, c.order),
                              Step(data1, map_remove(c.order, prev)),
                              Step(data1, ord2)>>]
        ELSE insert_vacant(c1, now, size, key, val)

\* ---- the list-based reference cache ---------------------------------------
\* (key, value) pairs, the most recently used first
ref_without(l, key) == LET Other(e) == e.key # key IN SelectSeq(l, Other)

ref_has(l, key) == \E i \in DOMAIN l : l[i].key = key

ref_val(l, key) == l[CHOOSE i \in DOMAIN l : l[i].key = key].val

\* a hit moves the key to the front; a miss changes nothing
ref_get(l, key) ==
    IF ref_has(l, key)
    THEN [list |-> <<[key |-> key, val |-> ref_val(l, key)]>> \o ref_without(l, key),
          ret |-> ref_val(l, key)]
    ELSE [list |-> l, ret |-> None]

\* the key goes to the front with the new value; beyond the capacity the last
\* element is dropped
ref_insert(l, cap, key, val) ==
    LET l1 == <<[key |-> key, val |-> val]>> \o ref_without(l, key)
    IN  [list |-> IF Len(l1) > cap THEN SubSeq(l1, 1, Len(l1) - 1) ELSE l1,
         ret |-> None]

\* ---- the state machine ---------------------------------------------------
Init ==
    /\ capacity \in Capacities
    /\ clock = new(capacity).clock
    /\ data = new(capacity).data
    /\ order = new(capacity).order
    /\ panicked = FALSE
    /\ last = [op |-> "new", key |-> 0, val |-> 0, ret |-> None,
               hit |-> FALSE, size |-> 0, gone |-> {}, steps |-> <<>>]
    /\ written = [k \in Keys |-> NeverInserted]
    /\ outlives = {}
    /\ touches = 0
    /\ ref = [list |-> <<>>, ret |-> None]

Install(r) ==
    /\ capacity' = r.cache.capacity
    /\ clock' = r.cache.clock
    /\ data' = r.cache.data
    /\ order' = r.cache.order
    /\ panicked' = r.panic

\* what one sub-mutation leaves behind: the sizes of the two maps and
\* whether the key of the call is in each of them
Seen(st, key) ==
    [table |-> Cardinality(DOMAIN st.data),
     ranking |-> Cardinality(DOMAIN st.order),
     in_table |-> key \in DOMAIN st.data,
     in_ranking |-> \E t \in DOMAIN st.order : st.order[t] = key]

\* what a caller sees of one call: the call, its result, whether the key was
\* live and how many entries there were before it, which keys it removed
Observe(op, key, val, r) ==
    [op |-> op, key |-> key, val |-> val, ret |-> r.ret,
     hit |-> key \in DOMAIN data, size |-> Cardinality(DOMAIN data),
     gone |-> (DOMAIN data) \ (DOMAIN r.cache.data),
     steps |-> [i \in DOMAIN r.steps |-> Seen(r.steps[i], key)]]

GetCall(key) ==
    /\ ~panicked
    /\ LET r == get(LRUCache, key) IN
       /\ Install(r)
       /\ last' = Observe("get", key, 0, r)
       /\ written' = written
       /\ outlives' = IF key \in DOMAIN data /\ ~r.panic
                      THEN {p \in outlives : p[2] # key}
                           \cup {<<key, j>> : j \in (DOMAIN data) \ {key}}
                      ELSE outlives
       /\ touches' = IF key \in DOMAIN data THEN touches + 1 ELSE touches
       /\ ref' = ref_get(ref.list, key)

InsertCall(key, val) ==
    /\ ~panicked
    /\ LET r == insert(LRUCache, key, val) IN
       /\ Install(r)
       /\ last' = Observe("insert", key, val, r)
       /\ written' = IF r.panic THEN written
                     ELSE [k \in Keys |->
                            IF k = key THEN val
                            ELSE IF k \in DOMAIN data /\ k \notin DOMAIN r.cache.data
                                 THEN Evicted
                                 ELSE written[k]]
       /\ outlives' = IF r.panic THEN outlives
                      ELSE {p \in outlives : p[2] # key}
       /\ touches' = touches + 1
       /\ ref' = ref_insert(ref.list, capacity, key, val)

\* the calls while the clock is below the bound: no sum overflows
Get(key) ==
    /\ key \in DOMAIN data => clock < MaxClock
    /\ GetCall(key)

Insert(key, val) ==
    /\ clock < MaxClock
    /\ InsertCall(key, val)

Next ==
    \/ \E key \in Keys : Get(key)
    \/ \E key \in Keys, val \in Vals : Insert(key, val)

Spec == Init /\ [][Next]_vars

\* ---- the clock at the end of its width ----------------------------------
\* the calls with no bound on the clock: at ClockMax the sum wraps (a build
\* without overflow checks) ...
GetWrap(key) ==
    /\ key \in DOMAIN data => touches < MaxTouches
    /\ GetCall(key)

InsertWrap(key, val) ==
    /\ touches < MaxTouches
    /\ InsertCall(key, val)

\* ... or self.clock += 1 panics (a build with overflow checks); the sum comes
\* before every write of the call, so the cache is as it was
Overflow(op, key, val) ==
    /\ ~panicked
    /\ clock = ClockMax
    /\ panicked' = TRUE
    /\ last' = [op |-> op, key |-> key, val |-> val, ret |-> None,
                hit |-> key \in DOMAIN data, size |-> Cardinality(DOMAIN data),
                gone |-> {}, steps |-> <<>>]
    /\ touches' = touches + 1
    /\ UNCHANGED <<capacity, clock, data, order, written, outlives, ref>>

GetOverflow(key) ==
    /\ key \in DOMAIN data
    /\ Overflow("get", key, 0)

InsertOverflow(key, val) ==
    /\ val \in Vals
    /\ Overflow("insert", key, val)

NextWrap ==
    \/ \E key \in Keys : GetWrap(key)
    \/ \E key \in Keys, val \in Vals : InsertWrap(key, val)
    \/ \E key \in Keys : GetOverflow(key)
    \/ \E key \in Keys, val \in Vals : InsertOverflow(key, val)

SpecWrap == Init /\ [][NextWrap]_vars

\* ---- the claims ----------------------------------------------------------
Live == DOMAIN data

\* k holds the largest instant of the table d
MostRecent(d, k) == \A j \in (DOMAIN d) \ {k} : d[k].instant > d[j].instant

\* k holds the smallest instant of the table d
LeastRecent(d, k) == \A j \in (DOMAIN d) \ {k} : d[k].instant < d[j].instant

\* C1: after every operation of any sequence of get and insert calls,
\* len() <= capacity.
C1_CapacityBound == len(LRUCache) <= capacity

C1_Witness ==
    /\ capacity >= 1
    /\ last.op = "insert"
    /\ ~last.hit
    /\ last.size = capacity
    /\ len(LRUCache) = capacity

\* C2: insert(k, v) with k absent and len() == capacity >= 1 removes exactly
\* one entry, the one whose instant was the smallest of all entries present
\* before the insert; every other pre-existing entry stays as it was.
C2_EvictsLeastRecent ==
    [][ (/\ last'.op = "insert"
         /\ ~panicked'
         /\ capacity >= 1
         /\ last'.key \notin DOMAIN data
         /\ len(LRUCache) = capacity)
        => \E k \in DOMAIN data :
             /\ LeastRecent(data, k)
             /\ (DOMAIN data) \ (DOMAIN data') = {k}
             /\ DOMAIN data' = ((DOMAIN data) \ {k}) \cup {last'.key}
             /\ \A j \in (DOMAIN data) \ {k} : data'[j] = data[j] ]_vars

C2_Witness ==
    /\ capacity = 2
    /\ last.op = "insert"
    /\ ~last.hit
    /\ last.size = 2
    /\ Cardinality(last.gone) = 1
    /\ \E j \in Keys : written[j] \in Vals /\ j # last.key /\ j \in Live

\* C3: after get(k) hits, k holds the largest instant of all live entries,
\* and from then on k is live whenever an entry that was live at that get and
\* has not been touched since is live (k is not evicted before it).
C3_TouchOnRead ==
    /\ (last.op = "get" /\ last.hit /\ ~panicked)
         => (last.key \in Live /\ MostRecent(data, last.key))
    /\ \A p \in outlives : p[2] \in Live => p[1] \in Live

\* capacity 2, insert 1, insert 2, get(1), insert 3: key 2 is gone, key 1 stays
C3_Witness ==
    /\ capacity = 2
    /\ clock = 4
    /\ last.op = "insert"
    /\ last.key = 3
    /\ last.gone = {2}
    /\ <<1, 2>> \in outlives
    /\ Live = {1, 3}

\* C4: insert(k, v) with k present replaces k's value by v (the next get(k)
\* returns v), makes k the most recently used entry, and keeps the set of
\* live keys and len() as they were, also when the cache is full.
C4_UpdateInPlace ==
    [][ (last'.op = "insert" /\ last'.key \in DOMAIN data /\ ~panicked')
        => /\ DOMAIN data' = DOMAIN data
           /\ len(LRUCache') = len(LRUCache)
           /\ data'[last'.key].val = last'.val
           /\ get(LRUCache', last'.key).ret = last'.val
           /\ MostRecent(data', last'.key)
           /\ \A j \in (DOMAIN data) \ {last'.key} : data'[j] = data[j] ]_vars

C4_Witness ==
    /\ last.op = "insert"
    /\ last.hit
    /\ last.size = capacity
    /\ capacity = 2
    /\ last.gone = {}
    /\ data[last.key].val = last.val
    /\ last.val = 2

C6_ReadYourWrite ==
    /\ (last.op = "insert" /\ capacity >= 1 /\ ~panicked)
         => (last.key \in Live /\ data[last.key].val = last.val)
    /\ (last.op = "get" /\ ~panicked)
         => last.ret = (IF written[last.key] \in Vals THEN written[last.key] ELSE None)

C6_Witness ==
    /\ last.op = "get"
    /\ last.ret = 2
    /\ written[last.key] = 2
    /\ \E j \in Keys : written[j] = Evicted

\* C7: a key that is live before an operation is absent after it only if the
\* operation is an insert of a different, absent key into a full cache.
C7_EvictionOnlyOnFullInsert ==
    [][ \A k \in DOMAIN data :
          k \notin DOMAIN data'
            => /\ last'.op = "insert"
               /\ last'.key # k
               /\ last'.key \notin DOMAIN data
               /\ len(LRUCache) = capacity ]_vars

C7_Witness ==
    /\ last.op = "insert"
    /\ last.gone # {}
    /\ ~last.hit
    /\ last.size = capacity

\* C8: on a cache built with new(0) every insert fails fatally (the unwrap on
\* the empty ranking) and stores nothing; none completes normally.
C8_ZeroCapacityPanics ==
    (capacity = 0 /\ last.op = "insert")
        => (panicked /\ data = EmptyMap /\ order = EmptyMap)

C8_Witness ==
    /\ capacity = 0
    /\ last.op = "insert"
    /\ panicked

\* C9: after every public operation the table and the ranking have the same
\* number of entries: the debug assertion of len() holds and len() is both.
C9_SameSize ==
    /\ len_assert(LRUCache)
    /\ len(LRUCache) = Cardinality(DOMAIN order)

C9_Witness ==
    /\ last.op = "insert"
    /\ last.hit
    /\ len(LRUCache) = 2
    /\ Cardinality(DOMAIN order) = 2

\* C10: after every public operation, for every key k of the table with
\* instant t, ranking[t] = k and no other instant maps to k, and the ranking
\* maps no instant to a key that is not in the table.
C10_Consistent ==
    /\ \A k \in DOMAIN data :
         /\ data[k].instant \in DOMAIN order
         /\ order[data[k].instant] = k
         /\ \A t \in DOMAIN order : order[t] = k => t = data[k].instant
    /\ \A t \in DOMAIN order : order[t] \in DOMAIN data

C10_Witness ==
    /\ last.op = "get"
    /\ last.hit
    /\ len(LRUCache) = 2
    /\ order[clock - 1] = last.key

C12_TokensUnique ==
    /\ \A k \in Live : \A j \in Live \ {k} : data[k].instant # data[j].instant
    /\ Live # {} => Cardinality({k \in Live : LeastRecent(data, k)}) = 1

C12_Witness ==
    /\ Cardinality(Live) = 2
    /\ last.op = "get"
    /\ last.hit
    /\ \E k \in Keys : written[k] = Evicted

\* the touched key of the last call, when that call touched one and returned
Touched == (last.op = "insert" \/ (last.op = "get" /\ last.hit)) /\ ~panicked

\* C13 as stated: after a get hit or an insert the touched entry's instant
\* (in the table and as its ranking index) equals the current clock.
C13_TokenIsClock ==
    (Touched /\ last.key \in Live)
        => /\ data[last.key].instant = clock
           /\ clock \in DOMAIN order
           /\ order[clock] = last.key

\* C13 amended: the instant stored is the clock read before the advance, so
\* after the call the touched entry's instant is clock - 1, in the table and
\* as its ranking index.
C13_TokenIsClockBefore ==
    (Touched /\ capacity >= 1)
        => /\ last.key \in Live
           /\ data[last.key].instant = clock - 1
           /\ (clock - 1) \in DOMAIN order
           /\ order[clock - 1] = last.key
           /\ clock \notin DOMAIN order

C13_Witness ==
    /\ last.op = "get"
    /\ last.hit
    /\ clock = 3
    /\ data[last.key].instant = 2
    /\ Cardinality(Live) = 2
\* the last call was an insert of an absent key into a full cache that returned
EvictingInsert ==
    /\ last.op = "insert"
    /\ ~last.hit
    /\ last.size = capacity
    /\ capacity >= 1
    /\ ~panicked

\* C14 as stated: the new entry is added to the table and to the ranking
\* first, and only then is the smallest instant removed from the ranking and
\* its key from the table; the key removed is a pre-existing one.
C14_InsertThenEvict ==
    EvictingInsert
        => /\ Len(last.steps) = 4
           /\ last.steps[1].in_table /\ last.steps[1].table = last.size + 1
           /\ last.steps[2].in_ranking /\ last.steps[2].ranking = last.size + 1
           /\ last.steps[3].ranking = last.size
           /\ last.steps[4].table = last.size
           /\ last.key \notin last.gone

\* C14 amended: the smallest instant is removed from the ranking first, while
\* the ranking holds pre-existing entries only; then the new entry is added to
\* the table and to the ranking; the evicted key leaves the table last; the
\* key removed is a pre-existing one.
C14_EvictThenInsert ==
    EvictingInsert
        => /\ Len(last.steps) = 4
           /\ ~last.steps[1].in_table /\ ~last.steps[1].in_ranking
           /\ last.steps[1].table = last.size /\ last.steps[1].ranking = last.size - 1
           /\ last.steps[2].in_table /\ ~last.steps[2].in_ranking
           /\ last.steps[2].table = last.size + 1 /\ last.steps[2].ranking = last.size - 1
           /\ last.steps[3].in_ranking /\ last.steps[3].ranking = last.size
           /\ last.steps[3].table = last.size + 1
           /\ last.steps[4].in_table /\ last.steps[4].in_ranking
           /\ last.steps[4].table = last.size /\ last.steps[4].ranking = last.size
           /\ Cardinality(last.gone) = 1
           /\ last.key \notin last.gone
           /\ last.key \in Live

C14_Witness ==
    /\ EvictingInsert
    /\ capacity = 2
    /\ Len(last.steps) = 4
    /\ last.gone # {}
\* C15: a get that hits k changes only k's instant and the clock: the live
\* keys, len(), every value (k's is the one returned) and the instant of
\* every other key, in the table and in the ranking, are as before.
C15_GetHitFrame ==
    [][ (last'.op = "get" /\ last'.key \in DOMAIN data /\ ~panicked')
        => /\ DOMAIN data' = DOMAIN data
           /\ len(LRUCache') = len(LRUCache)
           /\ capacity' = capacity
           /\ last'.ret = data[last'.key].val
           /\ \A j \in DOMAIN data : data'[j].val = data[j].val
           /\ \A j \in (DOMAIN data) \ {last'.key} :
                 /\ data'[j].instant = data[j].instant
                 /\ data[j].instant \in DOMAIN order'
                 /\ order'[data[j].instant] = j ]_vars

C15_Witness ==
    /\ last.op = "get"
    /\ last.hit
    /\ last.ret = 2
    /\ Cardinality(Live) = 2
    /\ \E j \in Live \ {last.key} : data[j].val = 1

\* C17: for capacity >= 1 no operation makes len() smaller, and once len()
\* is the capacity it stays the capacity.
C17_NeverShrinks ==
    [][ capacity >= 1
        => /\ len(LRUCache') >= len(LRUCache)
           /\ len(LRUCache) = capacity => len(LRUCache') = capacity ]_vars

C17_Witness ==
    /\ EvictingInsert
    /\ capacity = 2
    /\ len(LRUCache) = 2
    /\ clock >= 4

\* C18: for capacity >= 1 no operation fails: every live entry's instant is
\* in the ranking (the unwrap of get succeeds), and in a full cache the
\* ranking is not empty and its smallest instant maps to a key of the table
\* (the unwraps of insert succeed and data.remove removes an entry).
C18_NoPanic ==
    capacity >= 1
        => /\ ~panicked
           /\ \A k \in Live : data[k].instant \in DOMAIN order
           /\ len(LRUCache) = capacity
                => /\ DOMAIN order # {}
                   /\ order[first_key(order)] \in Live

C18_Witness ==
    /\ capacity = 2
    /\ ~panicked
    /\ last.op = "get"
    /\ last.hit
    /\ len(LRUCache) = capacity
    /\ \E k \in Keys : written[k] = Evicted
\* C16: for capacity >= 1 the cache and the list-based reference agree after
\* every operation: the same live keys with the same values, the same result
\* of every get, and the keys by ascending instant are the reference list
\* read from its least to its most recently used element.
C16_MatchesReference ==
    (capacity >= 1)
        => /\ ~panicked
           /\ Len(ref.list) = len(LRUCache)
           /\ {ref.list[i].key : i \in DOMAIN ref.list} = Live
           /\ \A i \in DOMAIN ref.list : data[ref.list[i].key].val = ref.list[i].val
           /\ last.op = "get" => last.ret = ref.ret
           /\ \A i \in DOMAIN ref.list : \A j \in DOMAIN ref.list :
                 i < j => data[ref.list[i].key].instant > data[ref.list[j].key].instant

C16_Witness ==
    /\ capacity = 2
    /\ Len(ref.list) = 2
    /\ last.op = "get"
    /\ last.hit
    /\ ref.ret = last.ret
    /\ ref.list[1].key = last.key
    /\ \E k \in Keys : written[k] = Evicted
\* C19: when the clock is at the largest value of its width, a touching call
\* does not wrap it and hand out an instant that is not above those of the
\* other live entries; so for sequences of any length the instants stay
\* unique, the table and the ranking keep the same size, and the entry with
\* the smallest instant is the least recently used one.
C19_ExhaustionGuarded ==
    /\ (Touched /\ last.key \in Live) => MostRecent(data, last.key)
    /\ \A k \in Live : \A j \in Live \ {k} : data[k].instant # data[j].instant
    /\ Cardinality(DOMAIN data) = Cardinality(DOMAIN order)
    /\ (capacity >= 1 /\ ~panicked /\ Live # {} /\ ref.list # <<>>)
         => LeastRecent(data, ref.list[Len(ref.list)].key)
====
